---------------------------- MODULE Spec2Model ----------------------------
(***************************************************************************)
(* HistoryInfo of sdk-core-protos/src/history_info.rs: the validating      *)
(* constructor new_from_history, the truncation make_incremental and the   *)
(* accessor orig_run_id, over bounded families of input histories.         *)
(***************************************************************************)
EXTENDS Integers, Sequences, FiniteSets

VARIABLES h, to_wf_task_num, phase, err, hi, last_call, run_id, incremental_calls

\* h                  the input History.events
\* to_wf_task_num     the Option<usize> given to new_from_history
\* phase              "input" before the construction, then "live" (an instance
\*                    exists), "rejected" (Err returned) or "panicked"
\* err                the error of the construction, NoError when it succeeded
\* hi                 the fields of the HistoryInfo
\* last_call          the last operation called
\* run_id             what the last orig_run_id returned
\* incremental_calls  how many times make_incremental was called on hi
vars == <<h, to_wf_task_num, phase, err, hi, last_call, run_id, incremental_calls>>

(***************************************************************************)
(* Bounds of the model.                                                    *)
(***************************************************************************)
\* longest history of the exhaustive family (every sequence of scan kinds)
MaxLen == 4
\* most blocks (workflow tasks, retried tasks, timers) of a built history
MaxBlocks == 3
\* largest target task number tried
MaxTarget == 3
\* longest continuation appended to a prefix when two inputs are compared
MaxSuffix == 1

\* A usize where its full width matters (the target of the scan): the number
\* written in three limbs of nine decimal digits, most significant first.
\* Usize(n) is the usize of a natural n.
Usize(n) == <<0, n \div 1000000000, n % 1000000000>>

\* usize::MAX of the 64-bit build, 2^64 - 1 = 18 446744073 709551615: the
\* value an absent target unwraps to
UsizeMax == <<18, 446744073, 709551615>>

(***************************************************************************)
(* Events.  event_type and attributes are independent fields of the        *)
(* protobuf message: the scan reads event_type, the first-event check and  *)
(* orig_run_id read attributes.                                            *)
(***************************************************************************)
WorkflowExecutionStarted == "WorkflowExecutionStarted"
WorkflowExecutionCompleted == "WorkflowExecutionCompleted"
WorkflowExecutionFailed == "WorkflowExecutionFailed"
WorkflowExecutionTimedOut == "WorkflowExecutionTimedOut"
WorkflowExecutionCanceled == "WorkflowExecutionCanceled"
WorkflowExecutionTerminated == "WorkflowExecutionTerminated"
WorkflowExecutionContinuedAsNew == "WorkflowExecutionContinuedAsNew"
WorkflowTaskScheduled == "WorkflowTaskScheduled"
WorkflowTaskStarted == "WorkflowTaskStarted"
WorkflowTaskCompleted == "WorkflowTaskCompleted"
WorkflowTaskFailed == "WorkflowTaskFailed"
WorkflowTaskTimedOut == "WorkflowTaskTimedOut"
TimerStarted == "TimerStarted"
TimerFired == "TimerFired"

\* Option<T>: <<>> is None, <<x>> is Some(x)
None == <<>>
Some(x) == <<x>>

\* attributes = Some(WorkflowExecutionStartedEventAttributes(..)), with or
\* without a workflow_type
WesAttributes(typed) ==
    [kind |-> "WorkflowExecutionStartedEventAttributes",
     workflow_type |-> IF typed THEN Some("wf") ELSE None,
     original_execution_run_id |-> "run"]

\* attributes of any other kind, or no attributes at all
OtherAttributes ==
    [kind |-> "other", workflow_type |-> None, original_execution_run_id |-> ""]

HistoryEvent(id, type, attrs) ==
    [event_id |-> id, event_type |-> type, attributes |-> attrs]

\* The terminal workflow-execution events.
is_final_wf_execution_event(event) ==
    event.event_type \in {WorkflowExecutionCompleted, WorkflowExecutionCanceled,
                          WorkflowExecutionFailed, WorkflowExecutionTimedOut,
                          WorkflowExecutionContinuedAsNew,
                          WorkflowExecutionTerminated}

(***************************************************************************)
(* The failures of new_from_history, by their messages.                    *)
(***************************************************************************)
NoError == "none"
EmptyHistory == "History is empty!"
MissingWorkflowType == "No workflow type defined in execution started attributes"
MalformedFirstEvent == "First event in history was not workflow execution started!"
DuplicateStartedId == "Latest wf started id and previous one are equal!"
UnexpectedEventAfterTaskStarted ==
    "Invalid history! Event should be WFT completed, failed, or timed out"
UnexpectedHistoryEnd == "History ends unexpectedly"
\* unreachable!() after the scan loop: a panic, not a returned error
Unreachable == "unreachable!()"

TypedErrors == {EmptyHistory, MissingWorkflowType, MalformedFirstEvent,
                DuplicateStartedId, UnexpectedEventAfterTaskStarted,
                UnexpectedHistoryEnd}

(***************************************************************************)
(* struct HistoryInfo                                                      *)
(***************************************************************************)
HistoryInfo(prev, started, events, count, type) ==
    [previous_started_event_id |-> prev,
     workflow_task_started_event_id |-> started,
     events |-> events,
     wf_task_count |-> count,
     wf_type |-> type]

\* the value of hi while no instance is alive
NoInfo == HistoryInfo(0, 0, <<>>, 0, "")

Ok(info) == [err |-> NoError, info |-> info]
Bail(e) == [err |-> e, info |-> NoInfo]

(***************************************************************************)
(* new_from_history                                                        *)
(***************************************************************************)
\* history.peek() after history.next() returned events[i]
next_event_is_none(events, i) == i = Len(events)

next_is_completed(events, i) ==
    IF next_event_is_none(events, i) THEN FALSE
    ELSE events[i + 1].event_type = WorkflowTaskCompleted

\* as next_is_failed_or_timeout, taking any successor for a retry
next_is_failed_or_timeout_any(events, i) == ~next_event_is_none(events, i)

next_is_failed_or_timeout(events, i) ==
    IF next_event_is_none(events, i) THEN FALSE
    ELSE \/ events[i + 1].event_type = WorkflowTaskFailed
         \/ events[i + 1].event_type = WorkflowTaskTimedOut

\* as closes_task, closing a failed or timed out task too
closes_task_any(events, i) ==
    \/ next_event_is_none(events, i)
    \/ next_is_completed(events, i)
    \/ next_is_failed_or_timeout(events, i)

\* as closes_task, closing only the task that ends the history
closes_task_last_only(events, i) == next_event_is_none(events, i)

\* the condition under which a WorkflowTaskStarted closes a task
closes_task(events, i) ==
    next_event_is_none(events, i) \/ next_is_completed(events, i)

\* as first_event_wf_type, with the first event's attributes not validated: a
\* missing name defaults instead of failing
first_event_wf_type_unchecked(events) ==
    LET attrs == events[1].attributes IN
    IF attrs.kind = "WorkflowExecutionStartedEventAttributes"
       /\ attrs.workflow_type # None
    THEN [err |-> NoError, name |-> attrs.workflow_type[1]]
    ELSE [err |-> NoError, name |-> ""]

\* the match on the first event's attributes: Ok(name) or the error
first_event_wf_type(events) ==
    LET attrs == events[1].attributes IN
    IF attrs.kind = "WorkflowExecutionStartedEventAttributes"
    THEN IF attrs.workflow_type = None
         THEN [err |-> MissingWorkflowType, name |-> ""]
         ELSE [err |-> NoError, name |-> attrs.workflow_type[1]]
    ELSE [err |-> MalformedFirstEvent, name |-> ""]

\* as retained, with the peeked event pushed too
retained_with_peeked(events, i) ==
    SubSeq(events, 1, IF i < Len(events) THEN i + 1 ELSE i)

\* as retained, with the current event not pushed yet
retained_before_push(events, i) == SubSeq(events, 1, i - 1)

\* the events pushed so far when events[i] is the current one
retained(events, i) == SubSeq(events, 1, i)

\* as closed_return, with the two markers exchanged
closed_return_swapped(prev, started, events, i, count, wf_type) ==
    Ok(HistoryInfo(started, prev, SubSeq(events, 1, i), count, wf_type))

\* return Ok(Self {..}) of the task-closing branch
closed_return(prev, started, events, i, count, wf_type) ==
    Ok(HistoryInfo(prev, started, retained(events, i), count, wf_type))

\* as final_return, counting the synthesized close as a task
final_return_counting(started, events, i, count, wf_type) ==
    Ok(HistoryInfo(started, started, SubSeq(events, 1, i), count + 1, wf_type))

\* return Ok(Self {..}) of the end-of-history branch
final_return(started, events, i, count, wf_type) ==
    Ok(HistoryInfo(started, started, retained(events, i), count, wf_type))

\* as reached_target, comparing one task late
reached_target_late(count, target, events, i) ==
    Usize(count - 1) = target \/ next_event_is_none(events, i)

\* as reached_target, with the target ignored
reached_target_never(count, target, events, i) == next_event_is_none(events, i)

\* the test that ends the scan in the task-closing branch: the count, a
\* natural, against the target, a usize
reached_target(count, target, events, i) ==
    Usize(count) = target \/ next_event_is_none(events, i)

\* as end_is_accepted, with the request for the full history forgotten
end_is_accepted_final_only(event, is_all_hist) ==
    is_final_wf_execution_event(event)

\* the test of the end-of-history branch
end_is_accepted(event, is_all_hist) ==
    is_final_wf_execution_event(event) \/ is_all_hist

\* as duplicate_started_id, with the comparison lost
duplicate_started_id_never(started, previous) == FALSE

\* the test behind the "are equal!" failure
duplicate_started_id(started, previous) == started = previous

\* as ends_unexpectedly, with the comparison inverted
ends_unexpectedly_inverted(started, event) == started = event.event_id

\* the test behind the "History ends unexpectedly" failure
ends_unexpectedly(started, event) == started # event.event_id

\* the tail of one loop iteration: the `if next_event.is_none()` block
RECURSIVE scan(_, _, _, _, _, _, _)
end_of_iteration(events, i, started, count, target, is_all_hist, wf_type) ==
    IF next_event_is_none(events, i)
    THEN IF end_is_accepted(events[i], is_all_hist)
         THEN final_return(started, events, i, count, wf_type)
         ELSE IF ends_unexpectedly(started, events[i])
              THEN Bail(UnexpectedHistoryEnd)
              ELSE scan(events, i + 1, started, count, target, is_all_hist, wf_type)
    ELSE scan(events, i + 1, started, count, target, is_all_hist, wf_type)

\* the while-let loop, from the iteration that takes events[i]
scan(events, i, started, count, target, is_all_hist, wf_type) ==
    IF i > Len(events) THEN [err |-> Unreachable, info |-> NoInfo]
    ELSE
    IF events[i].event_type = WorkflowTaskStarted
    THEN IF closes_task(events, i)
         THEN LET previous_started_event_id == started
                  workflow_task_started_event_id == events[i].event_id
              IN IF duplicate_started_id(workflow_task_started_event_id,
                                         previous_started_event_id)
                 THEN Bail(DuplicateStartedId)
                 ELSE IF reached_target(count + 1, target, events, i)
                      THEN closed_return(previous_started_event_id,
                                         workflow_task_started_event_id,
                                         events, i, count + 1, wf_type)
                      ELSE end_of_iteration(events, i,
                                            workflow_task_started_event_id,
                                            count + 1, target, is_all_hist, wf_type)
         ELSE IF ~next_event_is_none(events, i)
                 /\ ~next_is_failed_or_timeout(events, i)
              THEN Bail(UnexpectedEventAfterTaskStarted)
              ELSE end_of_iteration(events, i, started, count, target,
                                    is_all_hist, wf_type)
    ELSE end_of_iteration(events, i, started, count, target, is_all_hist, wf_type)

unwrap_or(opt, default) == IF opt = None THEN default ELSE opt[1]

\* the Option<usize> parameter: the target number, when given, as a usize
to_usize(opt) == IF opt = None THEN None ELSE Some(Usize(opt[1]))

new_from_history(events, target) ==
    IF events = <<>> THEN Bail(EmptyHistory)
    ELSE LET is_all_hist == target = None
             wf_type == first_event_wf_type(events)
         IN IF wf_type.err # NoError THEN Bail(wf_type.err)
            ELSE scan(events, 1, 0, 0, unwrap_or(to_usize(target), UsizeMax),
                      is_all_hist,
                      wf_type.name)

(***************************************************************************)
(* make_incremental, orig_run_id                                           *)
(***************************************************************************)
\* as last_complete_ix, with position in place of rposition: the first one
last_complete_ix_first(events) ==
    LET S == {i \in 1..Len(events) : events[i].event_type = WorkflowTaskCompleted}
    IN IF S = {} THEN 0 ELSE CHOOSE i \in S : \A j \in S : i <= j

\* rposition of the last WorkflowTaskCompleted, 1-based; 0 when there is none
last_complete_ix(events) ==
    LET S == {i \in 1..Len(events) : events[i].event_type = WorkflowTaskCompleted}
    IN IF S = {} THEN 0 ELSE CHOOSE i \in S : \A j \in S : j <= i

\* as drain_through, with the exclusive range 0..ix
drain_through_exclusive(events, p) == SubSeq(events, p, Len(events))

\* events.drain(0..=ix) with ix 0-based = the 1-based position p
drain_through(events, p) == SubSeq(events, p + 1, Len(events))

\* as make_incremental_panics, with the missing position defaulted, not expected
make_incremental_panics_never(events) == FALSE

\* TRUE when make_incremental panics on these events
make_incremental_panics(events) == last_complete_ix(events) = 0

\* as make_incremental, recounting the tasks of the events left
make_incremental_recounting(info) ==
    LET left == drain_through(info.events, last_complete_ix(info.events))
    IN [info EXCEPT !.events = left,
                    !.wf_task_count =
                        Cardinality({i \in 1..Len(left) :
                            left[i].event_type = WorkflowTaskStarted})]

\* the HistoryInfo make_incremental leaves when it does not panic
make_incremental(info) ==
    [info EXCEPT !.events =
        drain_through(info.events, last_complete_ix(info.events))]

\* TRUE when orig_run_id panics: events[0] out of range, or the wrong attributes
orig_run_id_panics(events) ==
    \/ events = <<>>
    \/ events[1].attributes.kind # "WorkflowExecutionStartedEventAttributes"

(***************************************************************************)
(* Input histories.                                                        *)
(***************************************************************************)
\* the attributes an event of this type carries in a history of the server
NaturalAttributes(type) ==
    IF type = WorkflowExecutionStarted THEN WesAttributes(TRUE) ELSE OtherAttributes

\* one event type of every kind the scan tells apart
ScanTypes == {WorkflowExecutionStarted, WorkflowTaskStarted, WorkflowTaskCompleted,
              WorkflowTaskFailed, WorkflowTaskTimedOut, TimerFired,
              WorkflowExecutionCompleted}

\* every sequence of scan kinds of length at most n
TypeSeqs(n) == UNION {[1..k -> ScanTypes] : k \in 0..n}

\* ways of numbering the events: dense from 1, ascending with gaps, dense from
\* 0, all unset
\* (the protobuf default 0), repeating, descending
IdSchemes == {"dense", "sparse", "zerobased", "zero", "repeat", "descending"}

EventIdOf(scheme, i, n) ==
    CASE scheme = "dense" -> i
      [] scheme = "sparse" -> 2 * i - 1
      [] scheme = "zerobased" -> i - 1
      [] scheme = "zero" -> 0
      [] scheme = "repeat" -> 1 + ((i - 1) % 2)
      [] scheme = "descending" -> n + 1 - i

\* ways of attaching attributes: as the server does, the started attributes
\* without a workflow type, no started attributes anywhere, started attributes
\* on every event
AttrSchemes == {"natural", "untyped", "absent", "everywhere"}

AttributesOf(scheme, type) ==
    CASE scheme = "natural" -> NaturalAttributes(type)
      [] scheme = "untyped" ->
           IF type = WorkflowExecutionStarted THEN WesAttributes(FALSE)
           ELSE OtherAttributes
      [] scheme = "absent" -> OtherAttributes
      [] scheme = "everywhere" -> WesAttributes(TRUE)

MakeHistory(types, ids, attrs) ==
    [i \in 1..Len(types) |->
        HistoryEvent(EventIdOf(ids, i, Len(types)), types[i],
                     AttributesOf(attrs, types[i]))]

\* every sequence of scan kinds up to MaxLen under every numbering
IsNumberedHistory(x) ==
    \E s \in TypeSeqs(MaxLen), ids \in IdSchemes : x = MakeHistory(s, ids, "natural")

\* every sequence of scan kinds up to MaxLen, densely numbered, under every way
\* of attaching attributes
IsAttributedHistory(x) ==
    \E s \in TypeSeqs(MaxLen), a \in AttrSchemes : x = MakeHistory(s, "dense", a)

\* histories made of blocks, as the test builder makes them
Blocks ==
    {<<WorkflowTaskScheduled, WorkflowTaskStarted, WorkflowTaskCompleted>>,
     <<WorkflowTaskScheduled, WorkflowTaskStarted, WorkflowTaskFailed>>,
     <<WorkflowTaskScheduled, WorkflowTaskStarted, WorkflowTaskTimedOut>>,
     <<WorkflowTaskScheduled, WorkflowTaskStarted>>,
     <<TimerStarted, TimerFired>>}

Endings ==
    {<<>>, <<WorkflowTaskScheduled, WorkflowTaskStarted>>,
     <<WorkflowExecutionCompleted>>, <<WorkflowExecutionFailed>>,
     <<WorkflowExecutionTimedOut>>, <<WorkflowExecutionCanceled>>,
     <<WorkflowExecutionTerminated>>, <<WorkflowExecutionContinuedAsNew>>}

RECURSIVE BlockSeqs(_)
BlockSeqs(n) ==
    IF n = 0 THEN {<<WorkflowExecutionStarted>>}
    ELSE BlockSeqs(n - 1) \cup {s \o b : s \in BlockSeqs(n - 1), b \in Blocks}

IsBuiltHistory(x) ==
    \E s \in BlockSeqs(MaxBlocks), e \in Endings, ids \in {"dense", "sparse"} :
        x = MakeHistory(s \o e, ids, "natural")

IsInput(x) == IsNumberedHistory(x) \/ IsAttributedHistory(x) \/ IsBuiltHistory(x)

Targets == {None} \cup {Some(k) : k \in 0..MaxTarget}

(***************************************************************************)
(* The state machine: an input history, one construction from it, then     *)
(* any number of calls on the instance while it is alive.                  *)
(***************************************************************************)
Init ==
    /\ IsInput(h)
    /\ to_wf_task_num = None
    /\ phase = "input"
    /\ err = NoError
    /\ hi = NoInfo
    /\ last_call = "none"
    /\ run_id = ""
    /\ incremental_calls = 0

NewFromHistory ==
    /\ phase = "input"
    /\ \E t \in Targets :
         LET r == new_from_history(h, t) IN
         /\ to_wf_task_num' = t
         /\ err' = r.err
         /\ hi' = r.info
         /\ phase' = IF r.err = NoError THEN "live"
                     ELSE IF r.err = Unreachable THEN "panicked" ELSE "rejected"
    /\ last_call' = "new_from_history"
    /\ UNCHANGED <<h, run_id, incremental_calls>>

MakeIncremental ==
    /\ phase = "live"
    /\ IF make_incremental_panics(hi.events)
       THEN phase' = "panicked" /\ hi' = hi
       ELSE /\ phase' = "live"
            /\ hi' = make_incremental(hi)
    /\ last_call' = "make_incremental"
    /\ incremental_calls' = incremental_calls + 1
    /\ UNCHANGED <<h, to_wf_task_num, err, run_id>>

OrigRunId ==
    /\ phase = "live"
    /\ IF orig_run_id_panics(hi.events)
       THEN phase' = "panicked" /\ run_id' = run_id
       ELSE /\ phase' = "live"
            /\ run_id' = hi.events[1].attributes.original_execution_run_id
    /\ last_call' = "orig_run_id"
    /\ UNCHANGED <<h, to_wf_task_num, err, hi, incremental_calls>>

Next == NewFromHistory \/ MakeIncremental \/ OrigRunId

Spec == Init /\ [][Next]_vars

(***************************************************************************)
(* Vocabulary of the properties.                                           *)
(***************************************************************************)
\* an instance exists and no call on it has panicked
Live == phase = "live"

\* the instance is as new_from_history returned it
Fresh == Live /\ incremental_calls = 0

\* events is non-empty and begins with an event carrying the workflow
\* execution started attributes, the test orig_run_id makes
FirstIsExecutionStarted(events) ==
    /\ events # <<>>
    /\ events[1].attributes.kind = "WorkflowExecutionStartedEventAttributes"

\* new_from_history has just returned, with an instance or without
Constructed == last_call = "new_from_history"

LastIsTaskStarted(events) ==
    events # <<>> /\ events[Len(events)].event_type = WorkflowTaskStarted

\* event ids are at least 1 and strictly ascending
AscendingIds(x) ==
    /\ \A i \in 1..Len(x) : x[i].event_id >= 1
    /\ \A i \in 1..(Len(x) - 1) : x[i].event_id < x[i + 1].event_id

\* event ids are strictly ascending
StrictlyAscending(x) == \A i \in 1..(Len(x) - 1) : x[i].event_id < x[i + 1].event_id

\* the positions of the events of one type
PositionsOf(x, type) == {i \in 1..Len(x) : x[i].event_type = type}

\* the positions of the WorkflowTaskStarted events that close a task: the
\* ones followed by WorkflowTaskCompleted and the one that ends the sequence
ClosedStarted(x) ==
    {i \in PositionsOf(x, WorkflowTaskStarted) :
        i = Len(x) \/ x[i + 1].event_type = WorkflowTaskCompleted}

\* the k-th smallest element of a set of positions
Kth(S, k) == CHOOSE i \in S : Cardinality({j \in S : j <= i}) = k

NonTaskTypes == {TimerStarted, TimerFired}

\* WorkflowExecutionStarted, then workflow tasks, each WorkflowTaskScheduled,
\* WorkflowTaskStarted, WorkflowTaskCompleted in a row, among non-task events,
\* then one terminal event; ids at least 1 and ascending
WellFormed(x) ==
    /\ Len(x) >= 2
    /\ x[1].event_type = WorkflowExecutionStarted
    /\ x[1].attributes = WesAttributes(TRUE)
    /\ is_final_wf_execution_event(x[Len(x)])
    /\ AscendingIds(x)
    /\ \A i \in 2..(Len(x) - 1) :
          /\ x[i].event_type \in NonTaskTypes \cup {WorkflowTaskScheduled,
                  WorkflowTaskStarted, WorkflowTaskCompleted}
          /\ x[i].event_type = WorkflowTaskScheduled =>
                x[i + 1].event_type = WorkflowTaskStarted
          /\ x[i].event_type = WorkflowTaskStarted =>
                /\ x[i - 1].event_type = WorkflowTaskScheduled
                /\ x[i + 1].event_type = WorkflowTaskCompleted
          /\ x[i].event_type = WorkflowTaskCompleted =>
                x[i - 1].event_type = WorkflowTaskStarted

\* N of a well-formed history
TaskCount(x) == Cardinality(PositionsOf(x, WorkflowTaskCompleted))

\* the target k is given and names one of the tasks of the well-formed input
TargetsTaskOfWellFormed ==
    /\ WellFormed(h)
    /\ to_wf_task_num # None
    /\ to_wf_task_num[1] >= 1
    /\ to_wf_task_num[1] <= TaskCount(h)

\* the history of tests::single_timer
SingleTimer ==
    MakeHistory(<<WorkflowExecutionStarted, WorkflowTaskScheduled,
                  WorkflowTaskStarted, WorkflowTaskCompleted, TimerStarted,
                  TimerFired, WorkflowTaskScheduled, WorkflowTaskStarted>>,
                "dense", "natural")

\* the first event passes the check made before the scan
FirstEventValid(x) ==
    /\ x # <<>>
    /\ x[1].attributes.kind = "WorkflowExecutionStartedEventAttributes"
    /\ x[1].attributes.workflow_type # None

\* the positions of the WorkflowTaskStarted events that have a successor
\* other than WorkflowTaskCompleted, WorkflowTaskFailed, WorkflowTaskTimedOut
BadStarted(x) ==
    {i \in PositionsOf(x, WorkflowTaskStarted) :
        /\ i < Len(x)
        /\ x[i + 1].event_type \notin {WorkflowTaskCompleted, WorkflowTaskFailed,
                                        WorkflowTaskTimedOut}}

\* the id of the last closing WorkflowTaskStarted before position q, 0 if none
ClosedIdBefore(x, q) ==
    LET S == {i \in ClosedStarted(x) : i < q}
    IN IF S = {} THEN 0 ELSE x[Kth(S, Cardinality(S))].event_id

\* the target t makes the scan of x stop before position p
TruncatedBefore(x, p, t) ==
    /\ t # None
    /\ t[1] >= 1
    /\ Cardinality({q \in ClosedStarted(x) : q < p}) >= t[1]

\* the scan of x with target t gets to the event at position p: the first
\* event is valid and nothing before p ends the scan
ScanReaches(x, p, t) ==
    /\ FirstEventValid(x)
    /\ p \in 1..Len(x)
    /\ ~TruncatedBefore(x, p, t)
    /\ \A q \in BadStarted(x) : q >= p
    /\ \A q \in ClosedStarted(x) : q < p => x[q].event_id # ClosedIdBefore(x, q)

(***************************************************************************)
(* C1                                                                      *)
(***************************************************************************)
\* C1 as stated: in every live HistoryInfo, after construction and after any
\* make_incremental, events() is non-empty and begins with the workflow
\* execution started event.
C1_FirstEventAlways == Live => FirstIsExecutionStarted(hi.events)

\* C1 amended: while make_incremental has not been called on it, a live
\* HistoryInfo has non-empty events() whose first element carries the workflow
\* execution started attributes with a workflow type, and orig_run_id called
\* on it does not panic.
C1_FirstEventUntilIncremental ==
    /\ Fresh => /\ FirstIsExecutionStarted(hi.events)
                /\ hi.events[1].attributes.workflow_type # None
                /\ hi.events[1] = h[1]
    /\ (incremental_calls = 0 /\ last_call = "orig_run_id") => Live

\* orig_run_id has returned the run id on a freshly constructed instance
C1_Witness ==
    Fresh /\ last_call = "orig_run_id" /\ run_id = "run" /\ Len(hi.events) > 1


(***************************************************************************)
(* C2                                                                      *)
(***************************************************************************)
\* C2 as stated: in every HistoryInfo new_from_history returns, the two
\* started-event-id markers differ when both are non-zero.
C2_MarkersNeverEqual ==
    (Constructed /\ Live
       /\ hi.workflow_task_started_event_id # 0
       /\ hi.previous_started_event_id # 0)
    => hi.workflow_task_started_event_id # hi.previous_started_event_id

\* C2 amended: the markers differ in every HistoryInfo returned from the
\* task-closing branch (its last retained event is a WorkflowTaskStarted), and
\* are equal in every HistoryInfo returned from the end-of-history branch (its
\* last retained event is not a WorkflowTaskStarted).
C2_MarkersEqualOnlyAtHistoryEnd ==
    (Constructed /\ Live) =>
        (hi.workflow_task_started_event_id = hi.previous_started_event_id
            <=> ~LastIsTaskStarted(hi.events))

\* a construction that closed two tasks and stopped at the second
C2_Witness ==
    /\ Constructed /\ Live /\ LastIsTaskStarted(hi.events)
    /\ hi.previous_started_event_id # 0
    /\ hi.workflow_task_started_event_id # 0

(***************************************************************************)
(* C3                                                                      *)
(***************************************************************************)
\* C3 as stated: with strictly ascending ids and at least two closed tasks,
\* previous_started_event_id < workflow_task_started_event_id.
C3_PreviousStrictlyLess ==
    (Constructed /\ Live /\ StrictlyAscending(h) /\ hi.wf_task_count >= 2)
    => hi.previous_started_event_id < hi.workflow_task_started_event_id

\* C3 amended: with strictly ascending ids and at least two closed tasks,
\* previous_started_event_id <= workflow_task_started_event_id; it is strictly
\* less when the construction stopped at a closed WorkflowTaskStarted (the
\* last retained event) and equal when it ran to the end of the history.
C3_PreviousLessUnlessHistoryEnd ==
    (Constructed /\ Live /\ StrictlyAscending(h) /\ hi.wf_task_count >= 2)
    => /\ hi.previous_started_event_id <= hi.workflow_task_started_event_id
       /\ LastIsTaskStarted(hi.events) =>
            hi.previous_started_event_id < hi.workflow_task_started_event_id
       /\ ~LastIsTaskStarted(hi.events) =>
            hi.previous_started_event_id = hi.workflow_task_started_event_id

\* two tasks closed, ascending ids, stopped at the second WorkflowTaskStarted
C3_Witness ==
    /\ Constructed /\ Live /\ StrictlyAscending(h) /\ hi.wf_task_count >= 2
    /\ LastIsTaskStarted(hi.events)
    /\ hi.previous_started_event_id > 0

(***************************************************************************)
(* C4                                                                      *)
(***************************************************************************)
\* C4 as stated: target k on a well-formed N-task history retains the prefix
\* up to and including the k-th WorkflowTaskCompleted.
C4_PrefixThroughCompleted ==
    (Constructed /\ TargetsTaskOfWellFormed) =>
        /\ Live
        /\ hi.events = SubSeq(h, 1, Kth(PositionsOf(h, WorkflowTaskCompleted),
                                        to_wf_task_num[1]))

\* C4 amended: target k on a well-formed N-task history retains the prefix up
\* to and including the k-th WorkflowTaskStarted, the event right before the
\* k-th WorkflowTaskCompleted, which is not retained.
C4_PrefixThroughStarted ==
    (Constructed /\ TargetsTaskOfWellFormed) =>
        /\ Live
        /\ hi.events = SubSeq(h, 1, Kth(PositionsOf(h, WorkflowTaskCompleted),
                                        to_wf_task_num[1]) - 1)
        /\ hi.events = SubSeq(h, 1, Kth(PositionsOf(h, WorkflowTaskStarted),
                                        to_wf_task_num[1]))

\* the second task of a well-formed history of three tasks was asked for
C4_Witness ==
    /\ Constructed /\ TargetsTaskOfWellFormed /\ Live
    /\ to_wf_task_num = Some(2)
    /\ TaskCount(h) = 3
    /\ Len(hi.events) < Len(h)

(***************************************************************************)
(* C5                                                                      *)
(***************************************************************************)
\* C5: with target k >= 1 and at least k closing WorkflowTaskStarted events in
\* the input, a construction that succeeds retains exactly the prefix ending
\* at the k-th of them: it is the last retained event, its id is
\* workflow_task_started_event_id, the WorkflowTaskCompleted after it is not
\* retained; and the construction does succeed when the scan gets that far.
\* The single-timer history gives 3 events for task 1 and 8 for task 2.
C5_PrefixEndsAtKthClosedStarted ==
    (Constructed /\ to_wf_task_num # None) =>
        LET k == to_wf_task_num[1] IN
        (k >= 1 /\ Cardinality(ClosedStarted(h)) >= k) =>
            LET p == Kth(ClosedStarted(h), k) IN
            /\ Live =>
                 /\ hi.events = SubSeq(h, 1, p)
                 /\ LastIsTaskStarted(hi.events)
                 /\ hi.workflow_task_started_event_id = h[p].event_id
                 /\ p < Len(h) =>
                      /\ h[p + 1].event_type = WorkflowTaskCompleted
                      /\ Len(hi.events) = p
            /\ (ScanReaches(h, p, to_wf_task_num)
                   /\ h[p].event_id # ClosedIdBefore(h, p)) => Live
            /\ h = SingleTimer =>
                 /\ Live
                 /\ k = 1 => Len(hi.events) = 3
                 /\ k = 2 => Len(hi.events) = 8

\* task 2 of the single-timer history: all 8 events
C5_Witness ==
    /\ Constructed /\ Live /\ h = SingleTimer
    /\ to_wf_task_num = Some(2)
    /\ Len(hi.events) = 8

(***************************************************************************)
(* C6                                                                      *)
(***************************************************************************)
\* C6: target k (1 <= k <= N) on a well-formed N-task history gives
\* wf_task_count = k; any successful construction with a target k >= 1 has
\* wf_task_count <= k.
C6_TaskCountIsTarget ==
    /\ (Constructed /\ TargetsTaskOfWellFormed) =>
            Live /\ hi.wf_task_count = to_wf_task_num[1]
    /\ (Live /\ to_wf_task_num # None) =>
            (to_wf_task_num[1] >= 1 => hi.wf_task_count <= to_wf_task_num[1])

\* the second of three tasks of a well-formed history
C6_Witness ==
    /\ Constructed /\ TargetsTaskOfWellFormed /\ Live
    /\ TaskCount(h) = 3
    /\ to_wf_task_num = Some(2)
    /\ hi.wf_task_count = 2

(***************************************************************************)
(* C7                                                                      *)
(***************************************************************************)
\* C7: with no target, a well-formed history of N completed tasks and a final
\* terminal event gives wf_task_count = N.
C7_TaskCountOfFullHistory ==
    (Constructed /\ WellFormed(h) /\ to_wf_task_num = None) =>
        Live /\ hi.wf_task_count = TaskCount(h)

\* a well-formed history of three tasks, constructed in full
C7_Witness ==
    /\ Constructed /\ Live /\ WellFormed(h) /\ to_wf_task_num = None
    /\ TaskCount(h) = 3
    /\ hi.wf_task_count = 3

(***************************************************************************)
(* C8                                                                      *)
(***************************************************************************)
\* C8: a successful construction with no target retains the whole input, in
\* order; with any target, the retained events are a prefix of the input.
C8_FullHistoryRetained ==
    (Constructed /\ Live) =>
        /\ to_wf_task_num = None => hi.events = h
        /\ Len(hi.events) <= Len(h)
        /\ \A i \in 1..Len(hi.events) : hi.events[i] = h[i]

\* a full construction of a history with a closed task that is not at its end
C8_Witness ==
    /\ Constructed /\ Live /\ to_wf_task_num = None
    /\ hi.wf_task_count >= 1
    /\ ~LastIsTaskStarted(h)
    /\ hi.events = h

(***************************************************************************)
(* C9                                                                      *)
(***************************************************************************)
\* C9: in a live HistoryInfo, after construction and after make_incremental,
\* every WorkflowTaskStarted that is not the last event is followed by
\* WorkflowTaskCompleted, WorkflowTaskFailed or WorkflowTaskTimedOut; an
\* input with a WorkflowTaskStarted that has another successor and that the
\* target does not cut off is rejected with an error, and when the scan gets
\* to that event the error is UnexpectedEventAfterTaskStarted.
C9_StartedHasTaskSuccessor ==
    /\ Live => BadStarted(hi.events) = {}
    /\ Constructed =>
         \A p \in BadStarted(h) :
            /\ ~TruncatedBefore(h, p, to_wf_task_num) => err \in TypedErrors
            /\ ScanReaches(h, p, to_wf_task_num) =>
                  err = UnexpectedEventAfterTaskStarted

\* a rejected input whose bad WorkflowTaskStarted comes after a closed task
C9_Witness ==
    /\ Constructed /\ err = UnexpectedEventAfterTaskStarted
    /\ \E p \in BadStarted(h) :
          /\ ScanReaches(h, p, to_wf_task_num)
          /\ ClosedIdBefore(h, p) # 0

\* a truncated instance, after make_incremental, that still holds a retried
\* WorkflowTaskStarted
C9_WitnessIncremental ==
    /\ Live /\ incremental_calls = 1
    /\ \E i \in 1..(Len(hi.events) - 1) :
          /\ hi.events[i].event_type = WorkflowTaskStarted
          /\ hi.events[i + 1].event_type = WorkflowTaskTimedOut

(***************************************************************************)
(* C10                                                                     *)
(***************************************************************************)
\* C10: right after a successful construction, wf_task_count is the number of
\* WorkflowTaskStarted events of events() that are last or followed by
\* WorkflowTaskCompleted, and the two markers are the ids of such events
\* only: a WorkflowTaskStarted followed by WorkflowTaskFailed or
\* WorkflowTaskTimedOut is not counted and changes neither marker.
C10_CountsClosedTasksOnly ==
    (Constructed /\ Live) =>
        LET n == Len(hi.events) IN
        /\ hi.wf_task_count = Cardinality(ClosedStarted(hi.events))
        /\ hi.workflow_task_started_event_id = ClosedIdBefore(hi.events, n + 1)
        /\ hi.previous_started_event_id =
              IF LastIsTaskStarted(hi.events)
              THEN ClosedIdBefore(hi.events, n)
              ELSE ClosedIdBefore(hi.events, n + 1)

\* a retried task (failed, then completed) followed by more events
C10_Witness ==
    /\ Constructed /\ Live
    /\ hi.wf_task_count = 1
    /\ \E i \in 1..(Len(hi.events) - 1) :
          /\ hi.events[i].event_type = WorkflowTaskStarted
          /\ hi.events[i + 1].event_type = WorkflowTaskFailed
          /\ hi.events[i].event_id # hi.workflow_task_started_event_id
          /\ hi.events[i].event_id # hi.previous_started_event_id

(***************************************************************************)
(* Vocabulary of the properties of make_incremental.                       *)
(***************************************************************************)
\* the HistoryInfo as the construction returned it: new_from_history is a
\* function of the input and the target, both kept in the state
Pre == new_from_history(h, to_wf_task_num).info

\* make_incremental has just been called for the first time
FirstIncremental == last_call = "make_incremental" /\ incremental_calls = 1

\* the positions of the WorkflowTaskCompleted events
CompletedPositions(x) == PositionsOf(x, WorkflowTaskCompleted)

\* every WorkflowTaskCompleted directly follows a WorkflowTaskStarted
CompletedFollowStarted(x) ==
    \A i \in CompletedPositions(x) :
        i > 1 /\ x[i - 1].event_type = WorkflowTaskStarted

\* the events of x after position p
After(x, p) == SubSeq(x, p + 1, Len(x))

\* the position of the j-th WorkflowTaskCompleted, 0 for j = 0
CompletedAt(x, j) == IF j = 0 THEN 0 ELSE Kth(CompletedPositions(x), j)

(***************************************************************************)
(* C11                                                                     *)
(***************************************************************************)
\* C11 as stated: on every constructed HistoryInfo that holds a
\* WorkflowTaskCompleted, built with a target or in full, make_incremental
\* retains the events after the (N-1)-th WorkflowTaskCompleted, N >= 1 being
\* wf_task_count.
C11_AfterTaskBeforeLast ==
    (FirstIncremental /\ CompletedPositions(Pre.events) # {}
        /\ Pre.wf_task_count >= 1) =>
        /\ Live
        /\ hi.events = After(Pre.events,
                             CompletedAt(Pre.events, Pre.wf_task_count - 1))

\* C11 amended: when every WorkflowTaskCompleted follows a WorkflowTaskStarted,
\* make_incremental retains the events after the (N-1)-th
\* WorkflowTaskCompleted if the construction stopped at a closed
\* WorkflowTaskStarted (the last retained event), and the events after the
\* N-th if it ran to the end of the history.
C11_AfterTaskBeforeLastWhenTruncated ==
    (FirstIncremental /\ CompletedPositions(Pre.events) # {}
        /\ CompletedFollowStarted(Pre.events)) =>
        /\ Live
        /\ LastIsTaskStarted(Pre.events) =>
              hi.events = After(Pre.events,
                                CompletedAt(Pre.events, Pre.wf_task_count - 1))
        /\ ~LastIsTaskStarted(Pre.events) =>
              hi.events = After(Pre.events,
                                CompletedAt(Pre.events, Pre.wf_task_count))

\* the instance held three tasks and stopped at the third WorkflowTaskStarted
C11_Witness ==
    /\ FirstIncremental /\ Live
    /\ Pre.wf_task_count = 3
    /\ LastIsTaskStarted(Pre.events)
    /\ CompletedFollowStarted(Pre.events)
    /\ hi.events # <<>>

(***************************************************************************)
(* C12                                                                     *)
(***************************************************************************)
\* C12: when events() holds a WorkflowTaskCompleted, make_incremental leaves
\* exactly the events after the last one, in order; the single-timer history
\* with two tasks is left with 4 events, the first with id 5.
C12_SuffixAfterLastCompleted ==
    (FirstIncremental /\ CompletedPositions(Pre.events) # {}) =>
        /\ Live
        /\ \E p \in CompletedPositions(Pre.events) :
              /\ \A q \in CompletedPositions(Pre.events) : q <= p
              /\ Len(hi.events) = Len(Pre.events) - p
              /\ \A i \in 1..Len(hi.events) : hi.events[i] = Pre.events[p + i]
        /\ (h = SingleTimer /\ to_wf_task_num = Some(2)) =>
              /\ Len(hi.events) = 4
              /\ hi.events[1].event_id = 5

\* tests::incremental_works
C12_Witness ==
    /\ FirstIncremental /\ Live
    /\ h = SingleTimer /\ to_wf_task_num = Some(2)
    /\ Len(hi.events) = 4

(***************************************************************************)
(* C13                                                                     *)
(***************************************************************************)
\* C13 as stated: on a HistoryInfo just returned by new_from_history neither
\* make_incremental nor orig_run_id panics.
C13_NoPanicAfterConstruction ==
    (FirstIncremental \/ (incremental_calls = 0 /\ last_call = "orig_run_id"))
    => Live

\* C13 amended: on a HistoryInfo just returned by new_from_history,
\* orig_run_id does not panic and returns the run id of the first input
\* event; make_incremental panics exactly when events() holds no
\* WorkflowTaskCompleted, which a successful construction does not exclude.
C13_PanicOnlyWithoutCompleted ==
    /\ (incremental_calls = 0 /\ last_call = "orig_run_id") =>
          /\ Live
          /\ run_id = h[1].attributes.original_execution_run_id
    /\ FirstIncremental =>
          (phase = "panicked" <=> CompletedPositions(Pre.events) = {})

\* make_incremental panicked on the first task of a well-formed history
C13_Witness ==
    /\ FirstIncremental /\ phase = "panicked"
    /\ WellFormed(h) /\ to_wf_task_num = Some(1)
    /\ Pre.wf_task_count = 1

(***************************************************************************)
(* C14                                                                     *)
(***************************************************************************)
\* C14: make_incremental panics, leaving the instance as it was, whenever
\* events() holds no WorkflowTaskCompleted; after a call that succeeded
\* events() holds none, so a second call on the instance panics.
C14_AtMostOnce ==
    /\ (FirstIncremental /\ CompletedPositions(Pre.events) = {}) =>
          phase = "panicked" /\ hi = Pre
    /\ (Live /\ incremental_calls >= 1) => CompletedPositions(hi.events) = {}
    /\ incremental_calls >= 2 =>
          /\ phase = "panicked"
          /\ last_call = "make_incremental"
          /\ incremental_calls = 2

\* a second call panicked on an instance that held two WorkflowTaskCompleted
C14_Witness ==
    /\ incremental_calls = 2 /\ phase = "panicked"
    /\ Cardinality(CompletedPositions(Pre.events)) >= 2
    /\ hi.events # <<>>

(***************************************************************************)
(* C15                                                                     *)
(***************************************************************************)
\* C15: a call of make_incremental changes no field of the HistoryInfo but
\* events: the two markers, wf_task_count and wf_type keep their values.
C15_OnlyEventsChange ==
    [][last_call' = "make_incremental" =>
          /\ hi'.previous_started_event_id = hi.previous_started_event_id
          /\ hi'.workflow_task_started_event_id =
                hi.workflow_task_started_event_id
          /\ hi'.wf_task_count = hi.wf_task_count
          /\ hi'.wf_type = hi.wf_type]_vars

\* make_incremental removed events of an instance of two tasks, one of them
\* the first WorkflowTaskStarted
C15_Witness ==
    /\ FirstIncremental /\ Live
    /\ hi.wf_task_count = 2
    /\ hi.previous_started_event_id # 0
    /\ Len(hi.events) < Len(Pre.events)
    /\ \A i \in 1..Len(hi.events) :
          hi.events[i].event_id # hi.previous_started_event_id

(***************************************************************************)
(* Vocabulary of the properties of the end of the scan.                    *)
(***************************************************************************)
\* the event types of the scenario: two tasks started, none completed
MidTaskTypes ==
    <<WorkflowExecutionStarted, WorkflowTaskScheduled, WorkflowTaskStarted,
      TimerStarted, TimerFired, WorkflowTaskScheduled, WorkflowTaskStarted>>

HasTypes(x, types) ==
    /\ Len(x) = Len(types)
    /\ \A i \in 1..Len(x) : x[i].event_type = types[i]

\* the scan of the input gets to its last event, which is not a
\* WorkflowTaskStarted
ScanEndsOffTask ==
    /\ h # <<>>
    /\ ScanReaches(h, Len(h), to_wf_task_num)
    /\ h[Len(h)].event_type # WorkflowTaskStarted

(***************************************************************************)
(* C16                                                                     *)
(***************************************************************************)
\* C16 as stated: the history Started, TaskScheduled, TaskStarted,
\* TimerStarted, TimerFired, TaskScheduled, TaskStarted with no target is
\* rejected with UnexpectedHistoryEnd.
C16_MidTaskEndsUnexpectedly ==
    (Constructed /\ HasTypes(h, MidTaskTypes) /\ to_wf_task_num = None) =>
        err = UnexpectedHistoryEnd

\* C16 amended: that history with no target is rejected, with
\* UnexpectedEventAfterTaskStarted: its first WorkflowTaskStarted is followed
\* by TimerStarted.
C16_MidTaskIsInvalid ==
    (Constructed /\ HasTypes(h, MidTaskTypes) /\ to_wf_task_num = None) =>
        /\ phase = "rejected"
        /\ err = UnexpectedEventAfterTaskStarted

\* the scenario was constructed with no target
C16_Witness ==
    /\ Constructed /\ HasTypes(h, MidTaskTypes) /\ to_wf_task_num = None
    /\ h[3].event_id = 3
    /\ phase = "rejected"

(***************************************************************************)
(* C17                                                                     *)
(***************************************************************************)
\* C17: on a non-empty input with ids at least 1 and strictly ascending,
\* whatever the target, new_from_history returns a HistoryInfo or one of the
\* typed errors: the unreachable!() after the loop is not reached.
C17_NeverUnreachable ==
    (Constructed /\ h # <<>> /\ AscendingIds(h)) =>
        /\ err # Unreachable
        /\ phase \in {"live", "rejected"}
        /\ phase = "rejected" => err \in TypedErrors

\* the history ended off a task with target 0, ids ascending: the scan made
\* the last comparison and returned the error
C17_Witness ==
    /\ Constructed /\ AscendingIds(h) /\ Len(h) >= 3
    /\ to_wf_task_num = Some(0)
    /\ ClosedIdBefore(h, Len(h)) # 0
    /\ err = UnexpectedHistoryEnd

(***************************************************************************)
(* C18                                                                     *)
(***************************************************************************)
\* C18: when the scan gets to the last input event, that event is not a
\* WorkflowTaskStarted, and it is terminal or no target was given, the
\* construction succeeds with the whole input, both markers equal to the id
\* of the last closed WorkflowTaskStarted (0 if none), and wf_task_count the
\* number of closed tasks: the synthesized close is not counted.
C18_SynthesizedClose ==
    (Constructed /\ ScanEndsOffTask
       /\ (is_final_wf_execution_event(h[Len(h)]) \/ to_wf_task_num = None)) =>
        /\ Live
        /\ hi.events = h
        /\ hi.previous_started_event_id = hi.workflow_task_started_event_id
        /\ hi.workflow_task_started_event_id = ClosedIdBefore(h, Len(h))
        /\ hi.wf_task_count = Cardinality(ClosedStarted(h))

\* a terminal event ended the scan before the target was reached
C18_Witness ==
    /\ Constructed /\ ScanEndsOffTask /\ Live
    /\ is_final_wf_execution_event(h[Len(h)])
    /\ to_wf_task_num = Some(3)
    /\ hi.wf_task_count = 2
    /\ hi.previous_started_event_id # 0

(***************************************************************************)
(* C19                                                                     *)
(***************************************************************************)
\* C19: with a target, ids at least 1 and ascending, when the scan gets to
\* the last event with the target not reached and that event is neither a
\* WorkflowTaskStarted nor terminal, the construction fails with
\* UnexpectedHistoryEnd; with no target it never fails with that error.
C19_UnexpectedHistoryEnd ==
    /\ (Constructed /\ to_wf_task_num # None /\ AscendingIds(h)
          /\ ScanEndsOffTask /\ ~is_final_wf_execution_event(h[Len(h)])) =>
            phase = "rejected" /\ err = UnexpectedHistoryEnd
    /\ (Constructed /\ to_wf_task_num = None) => err # UnexpectedHistoryEnd

\* one task closed, two asked for, and the history ends with a timer
C19_Witness ==
    /\ Constructed /\ AscendingIds(h) /\ ScanEndsOffTask
    /\ to_wf_task_num = Some(2)
    /\ Cardinality(ClosedStarted(h)) = 1
    /\ h[Len(h)].event_type = TimerFired
    /\ err = UnexpectedHistoryEnd

(***************************************************************************)
(* C20                                                                     *)
(***************************************************************************)
\* continuations of a prefix: any events, numbered from 1 again or not at all
Suffixes ==
    {MakeHistory(s, ids, "natural") : s \in TypeSeqs(MaxSuffix),
                                      ids \in {"dense", "zero"}}

\* the target k >= 1 is given and the k-th closing WorkflowTaskStarted of the
\* input has an event after it
TargetTaskIsCompleted ==
    /\ to_wf_task_num # None
    /\ to_wf_task_num[1] >= 1
    /\ Cardinality(ClosedStarted(h)) >= to_wf_task_num[1]
    /\ Kth(ClosedStarted(h), to_wf_task_num[1]) < Len(h)

\* the input up to and including the event after the k-th closing
\* WorkflowTaskStarted
DecidingPrefix == SubSeq(h, 1, Kth(ClosedStarted(h), to_wf_task_num[1]) + 1)

\* C20: the result of new_from_history with target k is the result on any
\* other history with the same prefix through the event after the k-th
\* closed WorkflowTaskStarted: same error or same events, markers, count and
\* type, whatever follows the prefix in either history.
C20_ResultDependsOnPrefixOnly ==
    (Constructed /\ TargetTaskIsCompleted) =>
        \A s \in Suffixes :
            LET other == new_from_history(DecidingPrefix \o s, to_wf_task_num)
            IN other.err = err /\ other.info = hi

\* the input is invalid after the prefix, and the construction succeeded
C20_Witness ==
    /\ Constructed /\ TargetTaskIsCompleted /\ Live
    /\ \E p \in BadStarted(h) : p > Len(DecidingPrefix)
    /\ hi.wf_task_count = to_wf_task_num[1]

\* some input takes the scan to the unreachable!() after the loop
UnreachableIsReached == Constructed /\ err = Unreachable /\ phase = "panicked"

=============================================================================
